---- MODULE Spec2Model ----
(***************************************************************************)
(* ModelSwitch: the versioned model registry (app/model_loader.py), the    *)
(* prediction path (app/predict.py), the admin operations (app/admin.py)   *)
(* and the metrics they emit (app/metrics.py).                             *)
(*                                                                         *)
(* The registry is one process-wide object with no lock.  Callers are      *)
(* threads of control that share it; one action is one statement (or a     *)
(* run of statements that touch no shared state) of the handler a caller   *)
(* is executing, so that every interleaving the unguarded dictionaries     *)
(* allow is a behaviour of the model.                                      *)
(*                                                                         *)
(* The backing store is the directory tree models/<version>/model.pkl.     *)
(* It belongs to the environment, which may add, replace, damage or        *)
(* remove an artifact at any time.  The path of the empty version string   *)
(* (models/model.pkl) is outside that layout and is taken not to exist.    *)
(***************************************************************************)
EXTENDS Integers, Sequences, FiniteSets, TLC

\* ------------------------------------------------------------------ bounds
MaxLoads == 2          \* artifact objects deserialized in one run
MaxFeatures == 3       \* entries of a list given to validate_features
MaxOut == 2            \* entries of a row, and rows, of an artifact's output

\* --------------------------------------------------------------- universe
Callers == {"t1", "t2"}           \* threads that share the registry
\* version directories of the store: one that metrics.py lists among its
\* common version names and one that it does not
Versions == {"v1", "v6"}
EmptyStr == ""                        \* the empty version string
NoneV == "None"                       \* Python's None as an argument
VersionArgs == Versions \cup {EmptyStr, NoneV}
CommonVersions == {"v1", "v2", "v3", "v4", "v5"}
default_version == "v1"
StoreStates == {"absent", "ok", "corrupt"}
NoHandle == [ver |-> EmptyStr, id |-> 0]
NoTime == "None"                      \* no entry in _load_times
Measured == "seconds"                 \* time.time() - start_time

\* truthiness of an Optional[str]: None and "" are both falsy
Falsy(x) == x \in {EmptyStr, NoneV}

\* os.path.exists(get_model_path(version))
PathExists(st, version) == version \in Versions /\ st[version] # "absent"

\* config.get_available_versions(): the directories holding a model.pkl
AvailableVersions(st) == {v \in Versions : PathExists(st, v)}

VARIABLES
  store,            \* backing store: version -> "absent" | "ok" | "corrupt"
  _models,          \* ModelRegistry._models: version -> handle | NoHandle
  _load_times,      \* ModelRegistry._load_times: version -> Measured | NoTime
  _active_version,  \* ModelRegistry._active_version
  gauge,            \* MODEL_VERSION_ACTIVE: label -> 0 | 1 | -1 (no sample)
  everActive,       \* history: the versions that have been the active one
  nextId,           \* identity of the next deserialized object
  pc,               \* caller -> position in its handler
  op,               \* caller -> operation in progress
  arg,              \* caller -> version argument of the operation (for
                    \* get and predict, a falsy one is kept as None)
  req_features,     \* caller -> request.features of its prediction
  prediction,       \* caller -> value returned by model.predict
  ver,              \* caller -> local variable `version`
  model,            \* caller -> local variable `model`
  emitted,          \* caller -> metric signals emitted by the operation
  res               \* caller -> outcome of the operation

vars == <<store, _models, _load_times, _active_version, gauge, everActive,
          nextId, pc, op, arg, req_features, prediction, ver, model, emitted,
          res>>

registry == <<_models, _load_times, _active_version, gauge, everActive, nextId>>
locals == <<op, arg, req_features, prediction, ver, model, emitted, res>>

\* the values an artifact's output is made of, after tolist(): a number,
\* or a list of values; NoValue where there is none
NoValue == [tag |-> "none", v |-> EmptyStr, items |-> <<>>]
Number(x) == [tag |-> "number", v |-> x, items |-> <<>>]
List(xs) == [tag |-> "list", v |-> EmptyStr, items |-> xs]

\* the dictionary of get_model_info, before it is filled
NoInfo == [version |-> EmptyStr, exists |-> FALSE, loaded |-> FALSE,
           load_time |-> NoTime, active |-> FALSE]

NoRes == [kind |-> "none", cause |-> "none", version |-> EmptyStr,
          artifact |-> NoHandle, success |-> FALSE, active |-> EmptyStr,
          listing |-> <<>>, prediction |-> NoValue, info |-> NoInfo,
          infos |-> <<>>, status |-> EmptyStr, models_loaded |-> 0]

\* metrics.set_active_version(version)
GaugeSetActive(g, version) ==
  [l \in DOMAIN g |-> IF l = version THEN 1
                      ELSE IF l \in CommonVersions THEN 0 ELSE g[l]]

\* ModelRegistry.__init__
Init ==
  /\ store \in [Versions -> StoreStates]
  /\ _models = [v \in Versions |-> NoHandle]
  /\ _load_times = [v \in Versions |-> NoTime]
  /\ _active_version = default_version
  /\ gauge = GaugeSetActive([l \in CommonVersions \cup Versions |-> -1],
                            default_version)
  /\ everActive = {default_version}
  /\ nextId = 1
  /\ pc = [p \in Callers |-> "idle"]
  /\ op = [p \in Callers |-> "none"]
  /\ arg = [p \in Callers |-> NoneV]
  /\ req_features = [p \in Callers |-> <<>>]
  /\ prediction = [p \in Callers |-> NoValue]
  /\ ver = [p \in Callers |-> EmptyStr]
  /\ model = [p \in Callers |-> NoHandle]
  /\ emitted = [p \in Callers |-> <<>>]
  /\ res = [p \in Callers |-> NoRes]

\* the environment adds, replaces, damages or removes an artifact
EnvStore(v, s) ==
  /\ s # store[v]
  /\ store' = [store EXCEPT ![v] = s]
  /\ UNCHANGED <<registry, pc, locals>>

\* ---------------------------------------------------------------- metrics
\* one signal: the metric, its version label and its second label
Signal(metric, version, label) ==
  [metric |-> metric, version |-> version, label |-> label]

\* ------------------------------------------------------- outcome of a call
\* the call of caller p ends: its outcome r stays visible until Return(p)
Finish(p, r, signals) ==
  /\ pc' = [pc EXCEPT ![p] = "done"]
  /\ res' = [res EXCEPT ![p] = r]
  /\ emitted' = [emitted EXCEPT ![p] = emitted[p] \o signals]

\* a startup_event without its except clause
MutStartupNoExcept(p, exc, cause) ==
  Finish(p, [NoRes EXCEPT !.kind = exc, !.cause = cause,
                          !.version = ver[p]], <<>>)

\* startup_event: try: model_registry.get_model()
\*                except FileNotFoundError: pass
\* the startup completes when the default artifact is missing; any other
\* exception leaves startup_event
StartupExcept(p, exc, cause) ==
  Finish(p, [NoRes EXCEPT !.kind = IF exc = "FileNotFoundError"
                                   THEN "ok" ELSE exc,
                          !.cause = cause, !.version = ver[p]], <<>>)

\* an exception of type exc leaves get_model.  Under make_prediction the
\* except clauses record the error against `version` and re-raise it as
\* ValueError (FileNotFoundError) or RuntimeError (anything else).
Raise(p, exc, cause) ==
  IF op[p] = "predict"
  THEN Finish(p,
         [NoRes EXCEPT !.kind = IF exc = "FileNotFoundError"
                                THEN "ValueError" ELSE "RuntimeError",
                       !.cause = cause, !.version = ver[p]],
         <<Signal("prediction_errors", ver[p],
                  IF exc = "FileNotFoundError" THEN "model_not_found"
                  ELSE exc)>>)
  ELSE IF op[p] = "startup"
  THEN StartupExcept(p, exc, cause)
  ELSE Finish(p, [NoRes EXCEPT !.kind = exc, !.cause = cause,
                               !.version = ver[p]], <<>>)

\* ------------------------------------------------------------- validation
\* one entry of a feature list, by what validate_features tells apart:
\* a finite int or float that numpy takes, a NaN, an infinity, a str, None,
\* and an int beyond 64 bits, which numpy holds as an object and for which
\* np.isnan raises TypeError
FeatureKinds == {"num", "nan", "inf", "str", "none", "big"}

\* features of a PredictionRequest: List[Union[float, int]], which pydantic
\* has coerced to floats
FeatureLists == {<<>>, <<"num", "nan", "num">>, <<"num", "num", "num">>}

\* predict.validate_features: the value returned, or the exception raised
validate_features(features) ==
  IF features = <<>> THEN "False"
  ELSE LET AllValid[i \in 1..(Len(features) + 1)] ==
             IF i > Len(features) THEN "True"
             ELSE IF features[i] \in {"str", "none"} THEN "False"
             ELSE IF features[i] = "big" THEN "TypeError"
             ELSE IF features[i] \in {"nan", "inf"} THEN "False"
             ELSE AllValid[i + 1]
       IN AllValid[1]

\* ---------------------------------------------------------- get / predict
\* make_prediction that resolves to the active version whatever the request
MutPredictIgnoresOverride(p, features, override) ==
  /\ pc[p] = "idle"
  /\ op' = [op EXCEPT ![p] = "predict"]
  /\ arg' = [arg EXCEPT ![p] = IF Falsy(override) THEN NoneV ELSE override]
  /\ req_features' = [req_features EXCEPT ![p] = features]
  /\ UNCHANGED prediction
  /\ IF validate_features(features) # "True"
     THEN /\ Finish(p, [NoRes EXCEPT
                          !.kind = IF validate_features(features) = "False"
                                   THEN "ValueError" ELSE "TypeError",
                          !.cause = "invalid_features"], <<>>)
          /\ UNCHANGED ver
     ELSE /\ ver' = [ver EXCEPT ![p] = _active_version]
          /\ pc' = [pc EXCEPT ![p] = "gm_check"]
          /\ UNCHANGED <<res, emitted>>
  /\ UNCHANGED <<store, registry, model>>

\* the prediction without predict_with_validation's test
MutPredictNoValidation(p, features, override) ==
  /\ pc[p] = "idle"
  /\ op' = [op EXCEPT ![p] = "predict"]
  /\ arg' = [arg EXCEPT ![p] = IF Falsy(override) THEN NoneV ELSE override]
  /\ req_features' = [req_features EXCEPT ![p] = features]
  /\ UNCHANGED prediction
  /\ ver' = [ver EXCEPT ![p] = IF Falsy(override)
                               THEN _active_version ELSE override]
  /\ pc' = [pc EXCEPT ![p] = "gm_check"]
  /\ UNCHANGED <<res, emitted>>
  /\ UNCHANGED <<store, registry, model>>

\* predict_with_validation, then make_prediction up to the resolution of
\* the effective version
PredictCall(p, features, override) ==
  /\ pc[p] = "idle"
  /\ op' = [op EXCEPT ![p] = "predict"]
  /\ arg' = [arg EXCEPT ![p] = IF Falsy(override) THEN NoneV ELSE override]
  /\ req_features' = [req_features EXCEPT ![p] = features]
  /\ UNCHANGED prediction
  /\ IF validate_features(features) # "True"
     THEN /\ Finish(p, [NoRes EXCEPT
                          !.kind = IF validate_features(features) = "False"
                                   THEN "ValueError" ELSE "TypeError",
                          !.cause = "invalid_features"], <<>>)
          /\ UNCHANGED ver
     ELSE /\ ver' = [ver EXCEPT ![p] = IF Falsy(override)
                                       THEN _active_version ELSE override]
          /\ pc' = [pc EXCEPT ![p] = "gm_check"]
          /\ UNCHANGED <<res, emitted>>
  /\ UNCHANGED <<store, registry, model>>

\* a direct call of ModelRegistry.get_model(version)
GetModelCall(p, version) ==
  /\ pc[p] = "idle"
  /\ op' = [op EXCEPT ![p] = "get_model"]
  /\ arg' = [arg EXCEPT ![p] = IF Falsy(version) THEN NoneV ELSE version]
  /\ UNCHANGED <<req_features, prediction, prediction>>
  /\ ver' = [ver EXCEPT ![p] = IF Falsy(version) THEN EmptyStr ELSE version]
  /\ pc' = [pc EXCEPT ![p] = "gm_check"]
  /\ UNCHANGED <<store, registry, model, emitted, res>>

\* get_model that takes the active version whatever its argument
MutGmCheckUsesActive(p) ==
  /\ pc[p] = "gm_check"
  /\ LET version == _active_version
     IN /\ ver' = [ver EXCEPT ![p] = version]
        /\ pc' = [pc EXCEPT ![p] =
                    IF _models[version] # NoHandle
                    THEN "gm_return" ELSE "load_exists"]
  /\ UNCHANGED <<store, registry, op, arg, req_features, prediction, model, emitted, res>>

\* get_model that takes the cached model only while its file exists
MutGmCheckConsultsStore(p) ==
  /\ pc[p] = "gm_check"
  /\ LET version == IF Falsy(ver[p]) THEN _active_version ELSE ver[p]
     IN /\ ver' = [ver EXCEPT ![p] = version]
        /\ pc' = [pc EXCEPT ![p] =
                    IF /\ version \in Versions
                       /\ _models[version] # NoHandle
                       /\ PathExists(store, version)
                    THEN "gm_return" ELSE "load_exists"]
  /\ UNCHANGED <<store, registry, op, arg, req_features, prediction, model,
                 emitted, res>>

\* get_model: version = version or self._active_version;
\*            if version not in self._models
GmCheck(p) ==
  /\ pc[p] = "gm_check"
  /\ LET version == IF Falsy(ver[p]) THEN _active_version ELSE ver[p]
     IN /\ ver' = [ver EXCEPT ![p] = version]
        /\ pc' = [pc EXCEPT ![p] =
                    IF version \in Versions /\ _models[version] # NoHandle
                    THEN "gm_return" ELSE "load_exists"]
  /\ UNCHANGED <<store, registry, op, arg, req_features, prediction, model, emitted, res>>

\* _load_model without the existence test
MutLoadExistsNoCheck(p) ==
  /\ pc[p] = "load_exists"
  /\ nextId <= MaxLoads
  /\ pc' = [pc EXCEPT ![p] = "loading"]
  /\ UNCHANGED <<res, emitted>>
  /\ UNCHANGED <<store, registry, op, arg, req_features, prediction, ver, model>>

\* _load_model that falls back to the default version when the artifact
\* of the requested one is missing
MutLoadExistsRollsBack(p) ==
  /\ pc[p] = "load_exists"
  /\ IF PathExists(store, ver[p])
     THEN /\ nextId <= MaxLoads
          /\ pc' = [pc EXCEPT ![p] = "loading"]
          /\ UNCHANGED <<res, emitted, _active_version>>
     ELSE /\ Raise(p, "FileNotFoundError", "model_not_found")
          /\ _active_version' = default_version
  /\ UNCHANGED <<store, _models, _load_times, gauge, everActive, nextId,
                 op, arg, req_features, prediction, ver, model>>

\* _load_model: if not os.path.exists(model_path): raise FileNotFoundError
LoadExists(p) ==
  /\ pc[p] = "load_exists"
  /\ IF PathExists(store, ver[p])
     THEN /\ nextId <= MaxLoads
          /\ pc' = [pc EXCEPT ![p] = "loading"]
          /\ UNCHANGED <<res, emitted>>
     ELSE Raise(p, "FileNotFoundError", "model_not_found")
  /\ UNCHANGED <<store, registry, op, arg, req_features, prediction, ver, model>>

\* _load_model that caches whatever it has when deserialization fails
MutLoadDeserCachesFailure(p) ==
  /\ pc[p] = "loading"
  /\ _models' = [_models EXCEPT ![ver[p]] = [ver |-> ver[p], id |-> nextId]]
  /\ nextId' = nextId + 1
  /\ IF store[ver[p]] = "ok"
     THEN /\ pc' = [pc EXCEPT ![p] = "load_time"]
          /\ UNCHANGED <<res, emitted>>
     ELSE Raise(p, "RuntimeError", "load_failed")
  /\ UNCHANGED <<store, _load_times, _active_version, gauge, everActive,
                 op, arg, req_features, prediction, ver, model>>

\* _load_model that keeps a single model: self._models = {version: model}
MutLoadDeserSingleSlot(p) ==
  /\ pc[p] = "loading"
  /\ IF store[ver[p]] = "ok"
     THEN /\ _models' = [v \in Versions |->
                           IF v = ver[p] THEN [ver |-> ver[p], id |-> nextId]
                           ELSE NoHandle]
          /\ nextId' = nextId + 1
          /\ pc' = [pc EXCEPT ![p] = "load_time"]
          /\ UNCHANGED <<res, emitted>>
     ELSE /\ Raise(p, "RuntimeError", "load_failed")
          /\ UNCHANGED <<_models, nextId>>
  /\ UNCHANGED <<store, _load_times, _active_version, gauge, everActive,
                 op, arg, req_features, prediction, ver, model>>

\* _load_model that removes a file it could not deserialize
MutLoadDeserDeletesCorrupt(p) ==
  /\ pc[p] = "loading"
  /\ IF store[ver[p]] = "ok"
     THEN /\ _models' = [_models EXCEPT
                           ![ver[p]] = [ver |-> ver[p], id |-> nextId]]
          /\ nextId' = nextId + 1
          /\ pc' = [pc EXCEPT ![p] = "load_time"]
          /\ UNCHANGED <<res, emitted, store>>
     ELSE /\ Raise(p, "RuntimeError", "load_failed")
          /\ store' = [store EXCEPT ![ver[p]] = "absent"]
          /\ UNCHANGED <<_models, nextId>>
  /\ UNCHANGED <<_load_times, _active_version, gauge, everActive,
                 op, arg, req_features, prediction, ver, model>>

\* _load_model that tries again after a failed deserialization
MutLoadDeserRetries(p) ==
  /\ pc[p] = "loading"
  /\ IF store[ver[p]] = "ok"
     THEN /\ _models' = [_models EXCEPT
                           ![ver[p]] = [ver |-> ver[p], id |-> nextId]]
          /\ nextId' = nextId + 1
          /\ pc' = [pc EXCEPT ![p] = "load_time"]
     ELSE /\ pc' = [pc EXCEPT ![p] = "load_exists"]
          /\ UNCHANGED <<_models, nextId>>
  /\ UNCHANGED <<store, _load_times, _active_version, gauge, everActive,
                 op, arg, req_features, prediction, ver, model, res, emitted>>

\* _load_model: model = joblib.load(model_path); self._models[version] = model
LoadDeser(p) ==
  /\ pc[p] = "loading"
  /\ IF store[ver[p]] = "ok"
     THEN /\ _models' = [_models EXCEPT
                           ![ver[p]] = [ver |-> ver[p], id |-> nextId]]
          /\ nextId' = nextId + 1
          /\ pc' = [pc EXCEPT ![p] = "load_time"]
          /\ UNCHANGED <<res, emitted>>
     ELSE /\ Raise(p, "RuntimeError", "load_failed")
          /\ UNCHANGED <<_models, nextId>>
  /\ UNCHANGED <<store, _load_times, _active_version, gauge, everActive,
                 op, arg, req_features, prediction, ver, model>>

\* _load_model: self._load_times[version] = time.time() - start_time;
\*              record_model_load_time(version, ...)
LoadTime(p) ==
  /\ pc[p] = "load_time"
  /\ _load_times' = [_load_times EXCEPT ![ver[p]] = Measured]
  /\ emitted' = [emitted EXCEPT
                   ![p] = Append(emitted[p],
                                 Signal("load_time", ver[p], "observe"))]
  /\ pc' = [pc EXCEPT ![p] = "gm_return"]
  /\ UNCHANGED <<store, _models, _active_version, gauge, everActive, nextId,
                 op, arg, req_features, prediction, ver, model, res>>

\* get_model: return self._models[version]
GmReturn(p) ==
  /\ pc[p] = "gm_return"
  /\ IF _models[ver[p]] = NoHandle
     THEN /\ Raise(p, "KeyError", "evicted")
          /\ UNCHANGED model
     ELSE /\ model' = [model EXCEPT ![p] = _models[ver[p]]]
          /\ IF op[p] = "predict"
             THEN /\ pc' = [pc EXCEPT ![p] = "invoke"]
                  /\ UNCHANGED <<res, emitted>>
             ELSE Finish(p, [NoRes EXCEPT !.kind = "ok",
                                          !.version = ver[p],
                                          !.artifact = _models[ver[p]]], <<>>)
  /\ UNCHANGED <<store, registry, op, arg, req_features, prediction, ver>>

\* make_prediction that looks the model up again when it invokes it
MutInvokeReadsCache(p, raises) ==
  /\ pc[p] = "invoke"
  /\ IF _models[ver[p]] = NoHandle
     THEN Raise(p, "KeyError", "evicted")
     ELSE Finish(p, [NoRes EXCEPT !.kind = "ok", !.version = ver[p],
                                  !.artifact = _models[ver[p]]],
                 <<Signal("inference_latency", ver[p], "observe"),
                   Signal("prediction_requests", ver[p], "success")>>)
  /\ UNCHANGED <<store, registry, op, arg, req_features, prediction, ver, model>>

\* make_prediction that answers with a prediction after recording the
\* exception of the inference call
MutInvokeSwallows(p, raises) ==
  /\ pc[p] = "invoke"
  /\ Finish(p, [NoRes EXCEPT !.kind = "ok", !.version = ver[p],
                             !.artifact = model[p]],
            IF raises
            THEN <<Signal("prediction_errors", ver[p], "Exception")>>
            ELSE <<Signal("inference_latency", ver[p], "observe"),
                   Signal("prediction_requests", ver[p], "success")>>)
  /\ UNCHANGED <<store, registry, op, arg, req_features, prediction, ver, model>>

\* make_prediction: prediction = model.predict(features), the output
\* normalisation, the latency and the success metrics; or the artifact's
\* inference call raises
Invoke(p, raises) ==
  /\ pc[p] = "invoke"
  /\ IF raises
     THEN Finish(p, [NoRes EXCEPT !.kind = "RuntimeError",
                                  !.cause = "inference",
                                  !.version = ver[p],
                                  !.artifact = model[p]],
                 <<Signal("prediction_errors", ver[p], "Exception")>>)
     ELSE Finish(p, [NoRes EXCEPT !.kind = "ok", !.version = ver[p],
                                  !.artifact = model[p]],
                 <<Signal("inference_latency", ver[p], "observe"),
                   Signal("prediction_requests", ver[p], "success")>>)
  /\ UNCHANGED <<store, registry, op, arg, req_features, prediction, ver, model>>

\* the caller takes the outcome; its frame is gone
Return(p) ==
  /\ pc[p] = "done"
  /\ pc' = [pc EXCEPT ![p] = "idle"]
  /\ op' = [op EXCEPT ![p] = "none"]
  /\ arg' = [arg EXCEPT ![p] = NoneV]
  /\ req_features' = [req_features EXCEPT ![p] = <<>>]
  /\ prediction' = [prediction EXCEPT ![p] = NoValue]
  /\ ver' = [ver EXCEPT ![p] = EmptyStr]
  /\ model' = [model EXCEPT ![p] = NoHandle]
  /\ emitted' = [emitted EXCEPT ![p] = <<>>]
  /\ res' = [res EXCEPT ![p] = NoRes]
  /\ UNCHANGED <<store, registry>>

\* ------------------------------------------------------- active version
\* set_active_version that assigns before it checks the path
MutSetActiveAssignFirst(version) ==
  [active |-> version, gauge |-> GaugeSetActive(gauge, version),
   everActive |-> everActive, ok |-> PathExists(store, version)]

\* set_active_version that returns True without assigning
MutSetActiveNoAssign(version) ==
  [active |-> _active_version, gauge |-> gauge, everActive |-> everActive,
   ok |-> PathExists(store, version)]

\* ModelRegistry.set_active_version(version): the new registry state
\* <<_active_version, gauge, everActive>> and the value returned
RegistrySetActive(version) ==
  IF PathExists(store, version)
  THEN [active |-> version, gauge |-> GaugeSetActive(gauge, version),
        everActive |-> everActive \cup {version}, ok |-> TRUE]
  ELSE [active |-> _active_version, gauge |-> gauge,
        everActive |-> everActive, ok |-> FALSE]

\* a switch that loads the version it activates
MutSetActiveEagerLoad(p, version) ==
  /\ pc[p] = "idle"
  /\ op' = [op EXCEPT ![p] = "set_active"]
  /\ arg' = [arg EXCEPT ![p] = version]
  /\ UNCHANGED <<req_features, prediction, prediction>>
  /\ LET r == RegistrySetActive(version)
     IN /\ _active_version' = r.active
        /\ gauge' = r.gauge
        /\ everActive' = r.everActive
        /\ _models' = IF r.ok /\ store[version] = "ok"
                      THEN [_models EXCEPT
                              ![version] = [ver |-> version, id |-> nextId]]
                      ELSE _models
        /\ Finish(p, [NoRes EXCEPT !.kind = "ok", !.version = version,
                                   !.success = r.ok], <<>>)
  /\ UNCHANGED <<store, _load_times, nextId, ver, model>>

\* a direct call of ModelRegistry.set_active_version(version)
SetActive(p, version) ==
  /\ pc[p] = "idle"
  /\ op' = [op EXCEPT ![p] = "set_active"]
  /\ arg' = [arg EXCEPT ![p] = version]
  /\ UNCHANGED <<req_features, prediction, prediction>>
  /\ LET r == RegistrySetActive(version)
     IN /\ _active_version' = r.active
        /\ gauge' = r.gauge
        /\ everActive' = r.everActive
        /\ Finish(p, [NoRes EXCEPT !.kind = "ok", !.version = version,
                                   !.success = r.ok], <<>>)
  /\ UNCHANGED <<store, _models, _load_times, nextId, ver, model>>

\* admin.set_active_version: the listing and the membership test
AdminSetActiveCall(p, version) ==
  /\ pc[p] = "idle"
  /\ op' = [op EXCEPT ![p] = "admin_set_active"]
  /\ arg' = [arg EXCEPT ![p] = version]
  /\ UNCHANGED <<req_features, prediction, prediction>>
  /\ IF version \notin AvailableVersions(store)
     THEN /\ Finish(p, [NoRes EXCEPT !.kind = "ok", !.version = version,
                                     !.success = FALSE,
                                     !.active = _active_version], <<>>)
          /\ UNCHANGED ver
     ELSE /\ ver' = [ver EXCEPT ![p] = version]
          /\ pc' = [pc EXCEPT ![p] = "admin_set"]
          /\ UNCHANGED <<res, emitted>>
  /\ UNCHANGED <<store, registry, model>>

\* admin.set_active_version that reports the requested version as active
\* whatever the registry answered
MutAdminSetReportsRequested(p) ==
  /\ pc[p] = "admin_set"
  /\ LET r == RegistrySetActive(ver[p])
     IN /\ _active_version' = r.active
        /\ gauge' = r.gauge
        /\ everActive' = r.everActive
        /\ Finish(p, [NoRes EXCEPT !.kind = "ok", !.version = ver[p],
                                   !.success = r.ok,
                                   !.active = ver[p]], <<>>)
  /\ UNCHANGED <<store, _models, _load_times, nextId, op, arg, req_features,
                 prediction, ver, model>>

\* admin.set_active_version: success = model_registry.set_active_version(
\* version) and the response built from it
AdminSet(p) ==
  /\ pc[p] = "admin_set"
  /\ LET r == RegistrySetActive(ver[p])
     IN /\ _active_version' = r.active
        /\ gauge' = r.gauge
        /\ everActive' = r.everActive
        /\ Finish(p, [NoRes EXCEPT !.kind = "ok", !.version = ver[p],
                                   !.success = r.ok,
                                   !.active = IF r.ok THEN ver[p]
                                              ELSE r.active], <<>>)
  /\ UNCHANGED <<store, _models, _load_times, nextId, op, arg, req_features, prediction,
                 ver, model>>

\* get_active_version that returns the configured default
MutGetActiveReturnsDefault(p) ==
  /\ pc[p] = "idle"
  /\ op' = [op EXCEPT ![p] = "get_active"]
  /\ Finish(p, [NoRes EXCEPT !.kind = "ok", !.active = default_version],
            <<>>)
  /\ UNCHANGED <<store, registry, arg, req_features, prediction, ver, model>>

\* get_active_version that answers None while the active version has no
\* artifact in the store
MutGetActiveNoneWhenMissing(p) ==
  /\ pc[p] = "idle"
  /\ op' = [op EXCEPT ![p] = "get_active"]
  /\ Finish(p, [NoRes EXCEPT
                  !.kind = "ok",
                  !.active = IF PathExists(store, _active_version)
                             THEN _active_version ELSE NoneV], <<>>)
  /\ UNCHANGED <<store, registry, arg, req_features, prediction, ver, model>>

\* ModelRegistry.get_active_version()
GetActive(p) ==
  /\ pc[p] = "idle"
  /\ op' = [op EXCEPT ![p] = "get_active"]
  /\ Finish(p, [NoRes EXCEPT !.kind = "ok", !.active = _active_version],
            <<>>)
  /\ UNCHANGED <<store, registry, arg, req_features, prediction, ver, model>>

\* clear_cache that removes the entry with `del self._models[version]`
MutClearCacheDel(p, version) ==
  /\ pc[p] = "idle"
  /\ op' = [op EXCEPT ![p] = "clear_cache"]
  /\ arg' = [arg EXCEPT ![p] = version]
  /\ UNCHANGED <<req_features, prediction, prediction>>
  /\ IF ~Falsy(version) /\ _models[version] = NoHandle
     THEN /\ Raise(p, "KeyError", "not_cached")
          /\ UNCHANGED _models
     ELSE /\ _models' = IF Falsy(version)
                        THEN [v \in Versions |-> NoHandle]
                        ELSE [_models EXCEPT ![version] = NoHandle]
          /\ pc' = [pc EXCEPT ![p] = "cc_times"]
          /\ UNCHANGED <<emitted, res>>
  /\ UNCHANGED <<store, _load_times, _active_version, gauge, everActive,
                 nextId, ver, model>>

\* --------------------------------------------------------------- eviction
\* ModelRegistry.clear_cache(version): self._models.pop(version, None),
\* or self._models.clear() when version is falsy
ClearCacheCall(p, version) ==
  /\ pc[p] = "idle"
  /\ op' = [op EXCEPT ![p] = "clear_cache"]
  /\ arg' = [arg EXCEPT ![p] = version]
  /\ UNCHANGED <<req_features, prediction, prediction>>
  /\ _models' = IF Falsy(version)
                THEN [v \in Versions |-> NoHandle]
                ELSE [_models EXCEPT ![version] = NoHandle]
  /\ pc' = [pc EXCEPT ![p] = "cc_times"]
  /\ UNCHANGED <<store, _load_times, _active_version, gauge, everActive,
                 nextId, ver, model, emitted, res>>

\* clear_cache whose clear-all branch leaves the load times in place
MutClearTimesKeepsAll(p) ==
  /\ pc[p] = "cc_times"
  /\ _load_times' = IF Falsy(arg[p])
                    THEN _load_times
                    ELSE [_load_times EXCEPT ![arg[p]] = NoTime]
  /\ Finish(p, [NoRes EXCEPT !.kind = "ok", !.version = arg[p]], <<>>)
  /\ UNCHANGED <<store, _models, _active_version, gauge, everActive, nextId,
                 op, arg, req_features, prediction, ver, model>>

\* ModelRegistry.clear_cache(version): self._load_times.pop(version, None),
\* or self._load_times.clear()
ClearTimes(p) ==
  /\ pc[p] = "cc_times"
  /\ _load_times' = IF Falsy(arg[p])
                    THEN [v \in Versions |-> NoTime]
                    ELSE [_load_times EXCEPT ![arg[p]] = NoTime]
  /\ Finish(p, [NoRes EXCEPT !.kind = "ok", !.version = arg[p]], <<>>)
  /\ UNCHANGED <<store, _models, _active_version, gauge, everActive, nextId,
                 op, arg, req_features, prediction, ver, model>>

\* ---------------------------------------------------------------- listing
\* the order of Python's str comparison on the version names
StrRank == [v \in Versions |-> IF v = "v1" THEN 1 ELSE 6]

\* os.listdir(models_dir): the names in the directory, in arbitrary order
ListDirOrders ==
  {o \in [1..Cardinality(Versions) -> Versions] :
     \A i, j \in DOMAIN o : i # j => o[i] # o[j]}

\* the loop of get_available_versions: keep the items whose model.pkl exists
RECURSIVE KeepExisting(_, _)
KeepExisting(st, items) ==
  IF items = <<>> THEN <<>>
  ELSE IF PathExists(st, Head(items))
       THEN <<Head(items)>> \o KeepExisting(st, Tail(items))
       ELSE KeepExisting(st, Tail(items))

\* one insertion of sorted(): x goes before the first greater element
RECURSIVE InsertSorted(_, _)
InsertSorted(x, s) ==
  IF s = <<>> THEN <<x>>
  ELSE IF StrRank[x] <= StrRank[Head(s)] THEN <<x>> \o s
       ELSE <<Head(s)>> \o InsertSorted(x, Tail(s))

\* sorted(versions)
RECURSIVE sorted(_)
sorted(s) == IF s = <<>> THEN <<>> ELSE InsertSorted(Head(s), sorted(Tail(s)))

\* a listing that returns the versions in directory order
MutListVersionsUnsorted(p, order) ==
  /\ pc[p] = "idle"
  /\ op' = [op EXCEPT ![p] = "list_versions"]
  /\ Finish(p, [NoRes EXCEPT !.kind = "ok",
                             !.listing = KeepExisting(store, order)], <<>>)
  /\ UNCHANGED <<store, registry, arg, req_features, prediction, ver, model>>

\* ModelRegistry.get_available_versions() -> config.get_available_versions()
ListVersions(p, order) ==
  /\ pc[p] = "idle"
  /\ op' = [op EXCEPT ![p] = "list_versions"]
  /\ Finish(p, [NoRes EXCEPT !.kind = "ok",
                             !.listing = sorted(KeepExisting(store, order))],
            <<>>)
  /\ UNCHANGED <<store, registry, arg, req_features, prediction, ver, model>>

\* ModelRegistry.is_version_loaded(version)
is_version_loaded(version) == _models[version] # NoHandle

\* ModelRegistry.get_load_time(version)
get_load_time(version) == _load_times[version]

\* an endpoint without the `except ValueError` clause
MutHttpStatusNoValueError(r) ==
  IF r.kind = "ok" THEN 200 ELSE 500

\* ---------------------------------------------------------------- queries
\* ModelRegistry.get_model_info(version): the dictionary it builds (the
\* size and the modification time of the file are left out)
ModelInfo(version) ==
  [version |-> version, exists |-> PathExists(store, version),
   loaded |-> is_version_loaded(version),
   load_time |-> get_load_time(version),
   active |-> (version = _active_version)]

\* the response of a query, which changes nothing
Answer(p, name, r) ==
  /\ pc[p] = "idle"
  /\ op' = [op EXCEPT ![p] = name]
  /\ Finish(p, r, <<>>)
  /\ UNCHANGED <<store, registry, arg, req_features, prediction, ver, model>>

\* a call of ModelRegistry.is_version_loaded(version)
IsVersionLoaded(p, version) ==
  Answer(p, "is_version_loaded",
         [NoRes EXCEPT !.kind = "ok", !.version = version,
                       !.success = is_version_loaded(version)])

\* a call of ModelRegistry.get_load_time(version)
GetLoadTime(p, version) ==
  Answer(p, "get_load_time",
         [NoRes EXCEPT !.kind = "ok", !.version = version,
                       !.info = [NoInfo EXCEPT
                                   !.load_time = get_load_time(version)]])

\* get_model_info that loads the version in order to describe it
MutGetModelInfoLoads(p, version) ==
  /\ pc[p] = "idle"
  /\ op' = [op EXCEPT ![p] = "get_model_info"]
  /\ _models' = IF store[version] = "ok" /\ ~is_version_loaded(version)
                THEN [_models EXCEPT
                        ![version] = [ver |-> version, id |-> nextId]]
                ELSE _models
  /\ Finish(p, [NoRes EXCEPT !.kind = "ok", !.version = version,
                             !.info = ModelInfo(version)], <<>>)
  /\ UNCHANGED <<store, _load_times, _active_version, gauge, everActive,
                 nextId, arg, req_features, prediction, ver, model>>

\* admin.get_model_info(version) over ModelRegistry.get_model_info
GetModelInfo(p, version) ==
  Answer(p, "get_model_info",
         [NoRes EXCEPT !.kind = "ok", !.version = version,
                       !.info = ModelInfo(version)])

\* admin.get_all_models_info: the info of every listed version
GetAllModelsInfo(p, order) ==
  LET available == sorted(KeepExisting(store, order))
  IN Answer(p, "get_all_models_info",
            [NoRes EXCEPT !.kind = "ok",
                          !.infos = [i \in DOMAIN available |->
                                       ModelInfo(available[i])]])

\* get_health_status that counts every cached version, listed or not
MutHealthCountsAllCached(p, order) ==
  LET available == sorted(KeepExisting(store, order))
      listed == {available[i] : i \in DOMAIN available}
  IN Answer(p, "get_health_status",
            [NoRes EXCEPT
               !.kind = "ok",
               !.active = _active_version,
               !.listing = available,
               !.models_loaded =
                  Cardinality({v \in Versions : is_version_loaded(v)}),
               !.status = IF available = <<>> THEN "no_models"
                          ELSE IF _active_version \notin listed
                               THEN "no_active_model"
                          ELSE "healthy"])

\* admin.get_health_status
GetHealthStatus(p, order) ==
  LET available == sorted(KeepExisting(store, order))
      listed == {available[i] : i \in DOMAIN available}
  IN Answer(p, "get_health_status",
            [NoRes EXCEPT
               !.kind = "ok",
               !.active = _active_version,
               !.listing = available,
               !.models_loaded =
                  Cardinality({v \in listed : is_version_loaded(v)}),
               !.status = IF available = <<>> THEN "no_models"
                          ELSE IF _active_version \notin listed
                               THEN "no_active_model"
                          ELSE "healthy"])

\* the queries of the registry and of the admin endpoints
Query(p) ==
  \/ \E v \in Versions : IsVersionLoaded(p, v)
  \/ \E v \in Versions : GetLoadTime(p, v)
  \/ \E v \in Versions : GetModelInfo(p, v)
  \/ \E o \in ListDirOrders : GetAllModelsInfo(p, o)
  \/ \E o \in ListDirOrders : GetHealthStatus(p, o)

\* ------------------------------------------------------- /predict endpoint
\* main.predict: the status of the response for an outcome of
\* predict_with_validation; other exceptions reach the global handler
HttpStatus(r) ==
  IF r.kind = "ok" THEN 200
  ELSE IF r.kind = "ValueError" THEN 400
  ELSE 500

\* ------------------------------------------------------------ next state
Step(p) ==
  \/ \E f \in FeatureLists, v \in VersionArgs : PredictCall(p, f, v)
  \/ \E v \in VersionArgs : GetModelCall(p, v)
  \/ GmCheck(p)
  \/ LoadExists(p)
  \/ LoadDeser(p)
  \/ LoadTime(p)
  \/ GmReturn(p)
  \/ \E raises \in BOOLEAN : Invoke(p, raises)
  \/ \E v \in Versions \cup {EmptyStr} : SetActive(p, v)
  \/ \E v \in Versions \cup {EmptyStr} : AdminSetActiveCall(p, v)
  \/ AdminSet(p)
  \/ GetActive(p)
  \/ \E v \in VersionArgs : ClearCacheCall(p, v)
  \/ ClearTimes(p)
  \/ \E o \in ListDirOrders : ListVersions(p, o)
  \/ Return(p)

Env == \E v \in Versions, s \in StoreStates : EnvStore(v, s)

\* Requests served one at a time (the handlers are coroutines that never
\* suspend), while the environment changes the store between any two
\* statements.
Next == Step("t1") \/ Query("t1") \/ Env
Spec == Init /\ [][Next]_vars

\* Threads sharing the registry, interleaved statement by statement, over
\* a store that holds still.
NextConc == \E p \in Callers : Step(p)
SpecConc == Init /\ [][NextConc]_vars

\* ------------------------------------------------------------- scheduling
\* the statements of a get_model or predict call after its first one
Continue(p) ==
  \/ GmCheck(p)
  \/ LoadExists(p)
  \/ LoadDeser(p)
  \/ LoadTime(p)
  \/ GmReturn(p)
  \/ \E raises \in BOOLEAN : Invoke(p, raises)

\* the calls that load and evict, and their statements
LiveStep(p) ==
  \/ \E f \in FeatureLists, v \in VersionArgs : PredictCall(p, f, v)
  \/ \E v \in VersionArgs : GetModelCall(p, v)
  \/ Continue(p)
  \/ \E v \in VersionArgs : ClearCacheCall(p, v)
  \/ ClearTimes(p)
  \/ Return(p)

\* Threads that load and evict over a store that holds still, each of
\* which the scheduler keeps running: a call that can execute its next
\* statement eventually executes it.
NextLive == \E p \in Callers : LiveStep(p)
SpecLive ==
  Init /\ [][NextLive]_vars /\ \A p \in Callers : WF_vars(Continue(p))

\* ------------------------------------------- validate_features on its own
\* the lists a direct caller may pass to validate_features
FeatureInputs == UNION {[1..n -> FeatureKinds] : n \in 0..MaxFeatures}

\* a direct call of predict.validate_features(features)
ValidateCall(p) ==
  /\ pc[p] = "idle"
  /\ op' = [op EXCEPT ![p] = "validate_features"]
  /\ LET r == validate_features(req_features[p])
     IN Finish(p, IF r = "TypeError"
                  THEN [NoRes EXCEPT !.kind = "TypeError"]
                  ELSE [NoRes EXCEPT !.kind = "ok", !.success = (r = "True")],
               <<>>)
  /\ UNCHANGED <<store, registry, arg, req_features, prediction, ver, model>>

\* a caller holding a list of its choice
InitValidate ==
  /\ store = [v \in Versions |-> "absent"]
  /\ _models = [v \in Versions |-> NoHandle]
  /\ _load_times = [v \in Versions |-> NoTime]
  /\ _active_version = default_version
  /\ gauge = GaugeSetActive([l \in CommonVersions \cup Versions |-> -1],
                            default_version)
  /\ everActive = {default_version}
  /\ nextId = 1
  /\ pc = [p \in Callers |-> "idle"]
  /\ op = [p \in Callers |-> "none"]
  /\ arg = [p \in Callers |-> NoneV]
  /\ \E f \in FeatureInputs :
       req_features = [p \in Callers |-> IF p = "t1" THEN f ELSE <<>>]
  /\ prediction = [p \in Callers |-> NoValue]
  /\ ver = [p \in Callers |-> EmptyStr]
  /\ model = [p \in Callers |-> NoHandle]
  /\ emitted = [p \in Callers |-> <<>>]
  /\ res = [p \in Callers |-> NoRes]

NextValidate == ValidateCall("t1")
SpecValidate == InitValidate /\ [][NextValidate]_vars

\* ----------------------------------------- output normalisation on its own
\* the numbers an output holds
Numbers == {Number(x) : x \in {"x", "y", "z"}}

\* the lists of 1..MaxOut, or of 0..MaxOut, elements of S
ListsOf(S, least) ==
  {List(xs) : xs \in UNION {[1..n -> S] : n \in least..MaxOut}}

\* what model.predict(...).tolist() may be: a vector of numbers, or a
\* matrix, i.e. a list of rows of numbers
RawOutputs == ListsOf(Numbers, 0) \cup ListsOf(ListsOf(Numbers, 1), 1)

\* make_prediction: if len(prediction) == 1: prediction = prediction[0]
Unwrap(pred) == IF Len(pred.items) = 1 THEN pred.items[1] ELSE pred

\* PredictionResponse.prediction: Union[int, float, List[Union[int, float]]]
ResponseAccepts(pred) ==
  \/ pred.tag = "number"
  \/ /\ pred.tag = "list"
     /\ \A i \in DOMAIN pred.items : pred.items[i].tag = "number"

\* make_prediction from the value model.predict returned to its outcome:
\* the unwrapping, the metrics and the PredictionResponse, whose
\* validation error is re-raised by `except Exception`
Normalize(p) ==
  /\ pc[p] = "normalize"
  /\ LET out == Unwrap(prediction[p])
     IN IF ResponseAccepts(out)
        THEN Finish(p, [NoRes EXCEPT !.kind = "ok", !.version = ver[p],
                                     !.artifact = model[p],
                                     !.prediction = out],
                    <<Signal("inference_latency", ver[p], "observe"),
                      Signal("prediction_requests", ver[p], "success")>>)
        ELSE Finish(p, [NoRes EXCEPT !.kind = "RuntimeError",
                                     !.cause = "response",
                                     !.version = ver[p],
                                     !.artifact = model[p]],
                    <<Signal("inference_latency", ver[p], "observe"),
                      Signal("prediction_requests", ver[p], "success"),
                      Signal("prediction_errors", ver[p],
                             "ValidationError")>>)
  /\ UNCHANGED <<store, registry, op, arg, req_features, prediction, ver,
                 model>>

\* a prediction of the default version whose inference call has returned
InitNormalize ==
  /\ store = [v \in Versions |-> IF v = default_version THEN "ok"
                                 ELSE "absent"]
  /\ _models = [v \in Versions |->
                  IF v = default_version THEN [ver |-> v, id |-> 1]
                  ELSE NoHandle]
  /\ _load_times = [v \in Versions |-> IF v = default_version THEN Measured
                                       ELSE NoTime]
  /\ _active_version = default_version
  /\ gauge = GaugeSetActive([l \in CommonVersions \cup Versions |-> -1],
                            default_version)
  /\ everActive = {default_version}
  /\ nextId = 2
  /\ pc = [p \in Callers |-> IF p = "t1" THEN "normalize" ELSE "idle"]
  /\ op = [p \in Callers |-> IF p = "t1" THEN "predict" ELSE "none"]
  /\ arg = [p \in Callers |-> NoneV]
  /\ req_features = [p \in Callers |-> IF p = "t1"
                                        THEN <<"num", "num", "num">>
                                        ELSE <<>>]
  /\ \E raw \in RawOutputs :
       prediction = [p \in Callers |-> IF p = "t1" THEN raw ELSE NoValue]
  /\ ver = [p \in Callers |-> IF p = "t1" THEN default_version
                              ELSE EmptyStr]
  /\ model = [p \in Callers |-> IF p = "t1"
                                 THEN [ver |-> default_version, id |-> 1]
                                 ELSE NoHandle]
  /\ emitted = [p \in Callers |->
                  IF p = "t1"
                  THEN <<Signal("load_time", default_version, "observe")>>
                  ELSE <<>>]
  /\ res = [p \in Callers |-> NoRes]

NextNormalize == Normalize("t1")
SpecNormalize == InitNormalize /\ [][NextNormalize]_vars

\* ---------------------------------------------------------------- startup
\* startup_event: os.makedirs(settings.models_dir, exist_ok=True), which
\* creates no version, then model_registry.get_model() for the active
\* version
StartupCall(p) ==
  /\ pc[p] = "idle"
  /\ op[p] = "none"
  /\ op' = [op EXCEPT ![p] = "startup"]
  /\ arg' = [arg EXCEPT ![p] = NoneV]
  /\ ver' = [ver EXCEPT ![p] = EmptyStr]
  /\ pc' = [pc EXCEPT ![p] = "gm_check"]
  /\ UNCHANGED <<store, registry, req_features, prediction, model,
                 emitted, res>>

\* a prediction request and its statements
Request(p) ==
  \/ \E f \in FeatureLists, v \in VersionArgs : PredictCall(p, f, v)
  \/ Continue(p)
  \/ Return(p)

\* The start of the service: the startup handler runs once; when it has
\* completed, prediction requests are served; the environment may change
\* the store at any time.
NextStartup ==
  \/ StartupCall("t1")
  \/ GmCheck("t1")
  \/ LoadExists("t1")
  \/ LoadDeser("t1")
  \/ LoadTime("t1")
  \/ GmReturn("t1")
  \/ (pc["t1"] = "done" /\ res["t1"].kind = "ok" /\ Request("t2"))
  \/ Env
SpecStartup == Init /\ [][NextStartup]_vars

\* ================================================================= claims
\* caller p takes the deciding step of a switch: the registry call itself,
\* or the admin operation's listing test
SwitchStep(p) ==
  /\ op'[p] \in {"set_active", "admin_set_active"}
  /\ pc[p] \in {"idle", "admin_set"}
  /\ pc'[p] # pc[p]

\* C1: a switch to a version that has no artifact in the store when the
\* switch looks for it fails, and the active version is what it was before,
\* for ModelRegistry.set_active_version and for the admin operation alike.
C1_SwitchToMissingFails ==
  [][\A p \in Callers :
       SwitchStep(p) /\ ~PathExists(store, arg'[p])
       => /\ pc'[p] = "done"
          /\ ~res'[p].success
          /\ _active_version' = _active_version
          /\ (op'[p] = "admin_set_active"
                => res'[p].active = _active_version)]_vars

\* C1 witness: the admin operation found the version in its listing, the
\* artifact was gone when the registry looked, and the switch failed
C1_Witness ==
  \E p \in Callers :
    /\ pc[p] = "done" /\ op[p] = "admin_set_active"
    /\ ver[p] = arg[p] /\ ~res[p].success
    /\ ~PathExists(store, arg[p]) /\ _active_version # arg[p]

\* C2: a successful switch to v makes v the active version, and nothing
\* but a successful switch ever changes the active version: no predict,
\* get_model, clear_cache, failed switch, query or change of the store.
C2_ActiveUntilNextSwitch ==
  [][/\ \A p \in Callers :
          SwitchStep(p) /\ pc'[p] = "done" /\ res'[p].success
          => _active_version' = arg'[p]
     /\ _active_version' # _active_version
          => \E p \in Callers :
               /\ SwitchStep(p) /\ pc'[p] = "done" /\ res'[p].success
               /\ arg'[p] = _active_version'
     /\ \A p \in Callers :
          pc[p] = "idle" /\ op'[p] = "get_active"
          => res'[p].active = _active_version]_vars

\* C2 witness: after a switch away from the default, a clear_cache has run
\* to completion and the active version is still the one switched to
C2_Witness ==
  \E p \in Callers :
    /\ pc[p] = "done" /\ op[p] = "clear_cache"
    /\ _active_version # default_version

\* C3: single-flight loading: at no time are two loads of the same version
\* in flight, so concurrent callers of an uncached version cause one load.
C3_SingleFlight ==
  \A p, q \in Callers :
    p # q /\ pc[p] = "loading" /\ pc[q] = "loading" => ver[p] # ver[q]

\* C4: the cache never holds two different artifact objects for one version
\* without an eviction in between, so that all concurrent callers of one
\* uncached version obtain the identical object.
C4_OneArtifactPerVersion ==
  [][\A v \in Versions :
       _models[v] # NoHandle /\ _models'[v] # NoHandle
       => _models'[v] = _models[v]]_vars

\* C5: once a prediction holds the handle get_model returned, no step of
\* any caller, an eviction included, takes it away: the prediction stays
\* on that handle and completes by invoking it, with the outcome of the
\* artifact's inference call.
C5_HandleSurvivesEviction ==
  [][\A p \in Callers :
       pc[p] = "invoke"
       => /\ model[p] # NoHandle /\ model[p].ver = ver[p]
          /\ \/ pc'[p] = "invoke" /\ model'[p] = model[p]
             \/ /\ pc'[p] = "done"
                /\ res'[p].artifact = model[p]
                /\ res'[p].version = ver[p]
                /\ res'[p].cause \in {"none", "inference"}]_vars

\* C5 witness: a prediction holds a handle whose cache entry has been
\* evicted
C5_Witness ==
  \E p \in Callers :
    /\ pc[p] = "invoke" /\ model[p] # NoHandle
    /\ _models[ver[p]] = NoHandle

\* C6: a get_model or predict for a version whose artifact is in the store
\* and deserializes correctly succeeds under every interleaving with
\* clear_cache: it never ends in a cache or load failure.
C6_EvictionNeverFailsGet ==
  \A p \in Callers :
    pc[p] = "done" /\ op[p] \in {"get_model", "predict"}
    /\ ver[p] \in Versions /\ store[ver[p]] = "ok"
    => res[p].cause \notin {"evicted", "model_not_found", "load_failed"}
\* caller p takes a step of its own
Moves(p) == pc'[p] # pc[p]

\* C7: a cache entry appears only through a successful load; a get that
\* fails on a missing or undeserializable artifact leaves neither a model
\* nor a load time for its version, and nothing remembers the failure: the
\* next get of an uncached version goes to the store again and caches the
\* artifact when the store holds a loadable one.
C7_FailedLoadLeavesNoEntry ==
  /\ [](\A p \in Callers :
          /\ pc[p] = "done" /\ op[p] \in {"get_model", "predict"}
          /\ res[p].cause \in {"model_not_found", "load_failed"}
          => /\ _models[ver[p]] = NoHandle
             /\ _load_times[ver[p]] = NoTime)
  /\ [][/\ \A v \in Versions :
             \/ _models[v] = NoHandle /\ _models'[v] # NoHandle
             \/ _load_times[v] = NoTime /\ _load_times'[v] # NoTime
             => \E p \in Callers :
                  /\ ver[p] = v /\ pc[p] \in {"loading", "load_time"}
                  /\ pc[p] = "loading" => store[v] = "ok"
        /\ \A p \in Callers :
             /\ pc[p] = "gm_check" /\ Moves(p)
                /\ _models[ver'[p]] = NoHandle
                => pc'[p] = "load_exists"
             /\ pc[p] = "load_exists" /\ Moves(p) /\ store[ver[p]] = "ok"
                => pc'[p] = "loading"
             /\ pc[p] = "loading" /\ Moves(p) /\ store[ver[p]] = "ok"
                => pc'[p] = "load_time" /\ _models'[ver[p]] # NoHandle]_vars

\* C7 witness: a get_model failed on an artifact that did not deserialize
\* and the version has no cache entry
C7_Witness ==
  \E p \in Callers :
    /\ pc[p] = "done" /\ op[p] = "get_model"
    /\ res[p].cause = "load_failed"
    /\ _models[ver[p]] = NoHandle /\ _load_times[ver[p]] = NoTime

\* C8: a read of the active version returns the configured default or the
\* argument of a switch that succeeded, and a read that runs while a switch
\* is under way returns the value before or after it, nothing else.
C8_ActiveReadsLinearizable ==
  /\ [](/\ _active_version \in everActive
        /\ \A p \in Callers :
             pc[p] = "done" /\ op[p] = "get_active"
             => res[p].active \in everActive)
  /\ [][/\ everActive' # everActive
             => \E p \in Callers :
                  /\ SwitchStep(p) /\ res'[p].success
                  /\ everActive' = everActive \cup {arg'[p]}
        /\ \A p \in Callers :
             pc[p] = "idle" /\ op'[p] = "get_active"
             => res'[p].active \in {_active_version, _active_version'}]_vars

\* C8 witness: a read returned a switched-to version while another
\* caller's switch to a different version was under way
C8_Witness ==
  \E p, q \in Callers :
    /\ pc[p] = "done" /\ op[p] = "get_active"
    /\ res[p].active # default_version
    /\ pc[q] = "admin_set" /\ ver[q] # res[p].active

\* a prediction of caller p is between its resolution and its outcome
InFlightPredict(p) ==
  /\ op[p] = "predict"
  /\ pc[p] \in {"gm_check", "load_exists", "loading", "load_time",
                "gm_return", "invoke"}

\* C9: a prediction that resolved its version before a switch is neither
\* aborted nor redirected by the switch: it keeps its version, obtains and
\* invokes the artifact of that version, and reports the version of the
\* artifact it invoked.
C9_SwitchDoesNotRedirect ==
  /\ [][\A p \in Callers :
          InFlightPredict(p)
          => /\ ver'[p] = ver[p]
             /\ pc'[p] = "invoke" => model'[p].ver = ver[p]
             /\ _active_version' # _active_version
                  => pc'[p] = pc[p] /\ model'[p] = model[p]]_vars
  /\ [](\A p \in Callers :
          pc[p] = "done" /\ op[p] = "predict" /\ res[p].kind = "ok"
          => res[p].version = res[p].artifact.ver)

\* C9 witness: a prediction without override holds the artifact of the
\* version it resolved while another version has become active
C9_Witness ==
  \E p \in Callers :
    /\ pc[p] = "invoke" /\ op[p] = "predict" /\ arg[p] = NoneV
    /\ ver[p] # _active_version /\ model[p].ver = ver[p]

\* C10: a prediction without override uses and reports the active version
\* in effect when it resolves; one with an override v uses and reports v
\* whatever the active version is; and no prediction changes the active
\* version.
C10_EffectiveVersion ==
  /\ [](\A p \in Callers :
          pc[p] = "done" /\ op[p] = "predict" /\ res[p].kind = "ok"
          => /\ res[p].version = IF arg[p] \in Versions THEN arg[p]
                                 ELSE _active_version
             /\ res[p].artifact.ver = res[p].version)
  /\ [][\A p \in Callers :
          Moves(p) /\ "predict" \in {op[p], op'[p]}
          => _active_version' = _active_version]_vars

\* C10 witness: after a switch to another version, a prediction with the
\* default version as override has used and reported the default version
C10_Witness ==
  \E p \in Callers :
    /\ pc[p] = "done" /\ op[p] = "predict" /\ res[p].kind = "ok"
    /\ arg[p] = default_version /\ _active_version # default_version
    /\ res[p].version = default_version

\* C11: a switch performs no load and leaves the loaded models and the load
\* times as they were; a version that is not cached becomes cached only by
\* the load step of a get_model or a prediction that resolved to it.
C11_SwitchLoadsNothing ==
  /\ [][\A p \in Callers :
          SwitchStep(p)
          => /\ _models' = _models
             /\ _load_times' = _load_times
             /\ nextId' = nextId]_vars
  /\ [][\A v \in Versions :
          ~is_version_loaded(v) /\ _models'[v] # NoHandle
          => \E p \in Callers :
               /\ op[p] \in {"get_model", "predict"}
               /\ pc[p] = "loading" /\ ver[p] = v
               /\ pc'[p] = "load_time"]_vars

\* C11 witness: a switch to a version other than the default has succeeded
\* and that version is not cached
C11_Witness ==
  \E p \in Callers :
    /\ pc[p] = "done" /\ op[p] = "set_active" /\ res[p].success
    /\ arg[p] # default_version /\ _active_version = arg[p]
    /\ ~is_version_loaded(arg[p])

\* a step of clear_cache by caller p: either of its two statements
ClearStep(p) ==
  /\ op'[p] = "clear_cache"
  /\ pc[p] \in {"idle", "cc_times"}
  /\ pc'[p] # pc[p]

\* C12: whenever a version string is given to clear_cache, the empty string
\* included, the cached model and the load time of every other version and
\* the active version are unchanged.
C12_EvictRemovesOnlyItsVersion ==
  [][\A p \in Callers :
       ClearStep(p) /\ arg'[p] # NoneV
       => /\ \A w \in Versions \ {arg'[p]} :
               /\ _models'[w] = _models[w]
               /\ _load_times'[w] = _load_times[w]
          /\ _active_version' = _active_version]_vars

\* the versions whose entries clear_cache(a) addresses
Cleared(a) == IF Falsy(a) THEN Versions ELSE {a}

\* C13: clear_cache never raises; on a version that has no cached model and
\* no load time it changes nothing; and when it has returned, the version
\* has no cached model and no load time, so that a second clear_cache of
\* the same version changes nothing.
C13_EvictionIdempotentTotal ==
  /\ [](\A p \in Callers :
          pc[p] = "done" /\ op[p] = "clear_cache"
          => /\ res[p].kind = "ok"
             /\ \A v \in Cleared(arg[p]) :
                  ~is_version_loaded(v) /\ _load_times[v] = NoTime)
  /\ [][\A p \in Callers :
          /\ ClearStep(p)
          /\ \A v \in Cleared(arg'[p]) :
               ~is_version_loaded(v) /\ _load_times[v] = NoTime
          => _models' = _models /\ _load_times' = _load_times]_vars

\* C13 witness: clear_cache of a version has returned in a registry that
\* never loaded anything
C13_Witness ==
  \E p \in Callers :
    /\ pc[p] = "done" /\ op[p] = "clear_cache" /\ arg[p] \in Versions
    /\ res[p].kind = "ok" /\ nextId = 1

\* C14: after clear_cache() without a version no version is loaded and no
\* load time is left; a get_model that misses the cache goes on to load;
\* it fails only in a step that finds the artifact absent or unreadable;
\* and when it succeeds the version is cached again with its load time.
C14_ClearAllThenReload ==
  /\ [](\A p \in Callers :
          pc[p] = "done" /\ op[p] = "clear_cache" /\ arg[p] = NoneV
          => \A v \in Versions :
               ~is_version_loaded(v) /\ _load_times[v] = NoTime)
  /\ [](\A p \in Callers :
          pc[p] = "done" /\ op[p] = "get_model" /\ res[p].kind = "ok"
          => /\ is_version_loaded(res[p].version)
             /\ res[p].artifact = _models[res[p].version]
             /\ _load_times[res[p].version] = Measured)
  /\ [][\A p \in Callers :
          op[p] = "get_model" /\ Moves(p)
          => /\ pc[p] = "gm_check"
                  /\ ~is_version_loaded(IF Falsy(ver[p]) THEN _active_version
                                        ELSE ver[p])
                => pc'[p] = "load_exists"
             /\ pc'[p] = "done" /\ pc[p] # "done" /\ store[ver[p]] = "ok"
                => res'[p].kind = "ok"]_vars

\* C14 witness: clear_cache() has returned after one load, and a load is
\* still possible
C14_Witness ==
  \E p \in Callers :
    /\ pc[p] = "done" /\ op[p] = "clear_cache" /\ arg[p] = NoneV
    /\ nextId = 2
    /\ \E v \in Versions : store[v] = "ok"

\* C15: a prediction whose features fail validation ends in its first step
\* with an error: no version is resolved, no signal is emitted, and the
\* cached models, the load times, the active version, its gauge and the
\* count of loads are unchanged.
C15_InvalidRejectedBeforeRegistry ==
  [][\A p \in Callers :
       /\ pc[p] = "idle" /\ op'[p] = "predict" /\ Moves(p)
       /\ validate_features(req_features'[p]) # "True"
       => /\ pc'[p] = "done"
          /\ res'[p].kind # "ok"
          /\ res'[p].cause = "invalid_features"
          /\ ver'[p] = ver[p]
          /\ model'[p] = model[p]
          /\ emitted'[p] = emitted[p]
          /\ UNCHANGED registry]_vars

\* C15 witness: a prediction with a NaN among its features was rejected
\* while a version was cached
C15_Witness ==
  \E p \in Callers :
    /\ pc[p] = "done" /\ op[p] = "predict"
    /\ req_features[p] = <<"num", "nan", "num">>
    /\ res[p].cause = "invalid_features"
    /\ \E v \in Versions : is_version_loaded(v)

\* an entry that is a finite number: an int or a float, not NaN, not +/-inf
FiniteNumber(k) == k \in {"num", "big"}

\* C16: validate_features returns True exactly for the non-empty lists
\* whose entries are all finite numbers, and False for every other list.
C16_ValidIffAllFinite ==
  \A p \in Callers :
    pc[p] = "done" /\ op[p] = "validate_features"
    => /\ res[p].kind = "ok"
       /\ res[p].success
            = (/\ req_features[p] # <<>>
               /\ \A i \in DOMAIN req_features[p] :
                    FiniteNumber(req_features[p][i]))

\* C17: a prediction that failed because its version has no artifact and a
\* prediction that failed on invalid features end with errors of different
\* kinds.
C17_UnavailableKindDiffersFromInvalid ==
  \A p, q \in Callers :
    /\ pc[p] = "done" /\ op[p] = "predict"
    /\ res[p].cause = "model_not_found"
    /\ pc[q] = "done" /\ op[q] = "predict"
    /\ res[q].cause = "invalid_features"
    => res[p].kind # res[q].kind

\* C18: at /predict a prediction rejected for invalid features or for a
\* missing artifact is answered 400, one that failed in deserialization or
\* in the inference call is answered 500, and only a successful prediction
\* is answered 200.
C18_HttpStatusByKind ==
  \A p \in Callers :
    pc[p] = "done" /\ op[p] = "predict"
    => /\ res[p].cause \in {"invalid_features", "model_not_found"}
            => HttpStatus(res[p]) = 400
       /\ res[p].cause \in {"load_failed", "inference"}
            => HttpStatus(res[p]) = 500
       /\ HttpStatus(res[p]) = 200 <=> res[p].kind = "ok"
       /\ res[p].kind = "ok" <=> res[p].cause = "none"

\* C18 witness: a prediction found no artifact for its version and is
\* answered 400
C18_Witness ==
  \E p \in Callers :
    /\ pc[p] = "done" /\ op[p] = "predict"
    /\ res[p].cause = "model_not_found"
    /\ HttpStatus(res[p]) = 400

\* C19: while the store holds no version, the listing is the empty list
\* and is no error, a prediction with valid features and no override ends
\* with the model-not-found error, nothing is cached and the active version
\* is the one the registry started with.
C19_EmptyStore ==
  AvailableVersions(store) = {}
  => /\ \A p \in Callers :
          /\ (pc[p] = "done" /\ op[p] = "list_versions")
               => (res[p].kind = "ok" /\ res[p].listing = <<>>)
          /\ (/\ pc[p] = "done" /\ op[p] = "predict" /\ arg[p] = NoneV
              /\ validate_features(req_features[p]) = "True")
               => (/\ res[p].kind = "ValueError"
                   /\ res[p].cause = "model_not_found")
     /\ \A v \in Versions : ~is_version_loaded(v)
     /\ _active_version = default_version

\* C19 witness: over an empty store one caller has listed the versions and
\* another has had its prediction refused for want of a model
C19_Witness ==
  /\ AvailableVersions(store) = {}
  /\ \E p, q \in Callers :
       /\ pc[p] = "done" /\ op[p] = "list_versions"
       /\ res[p].listing = <<>>
       /\ pc[q] = "done" /\ op[q] = "predict" /\ arg[q] = NoneV
       /\ res[q].cause = "model_not_found"

\* C20: the listing returned by get_available_versions holds exactly the
\* versions whose model.pkl exists in the store at the call, each once, in
\* ascending order, whatever is cached or active, and the call changes
\* nothing in the registry.
C20_ListingIsCurrentStore ==
  [][\A p \in Callers :
       pc[p] = "idle" /\ op'[p] = "list_versions" /\ Moves(p)
       => LET l == res'[p].listing
          IN /\ pc'[p] = "done" /\ res'[p].kind = "ok"
             /\ {l[i] : i \in DOMAIN l} = AvailableVersions(store)
             /\ Len(l) = Cardinality(AvailableVersions(store))
             /\ \A i, j \in DOMAIN l : i < j => StrRank[l[i]] < StrRank[l[j]]
             /\ UNCHANGED registry]_vars

\* C20 witness: a version that was loaded has since left the store, and the
\* listing shows only the other version although the first is still cached
C20_Witness ==
  \E p \in Callers :
    /\ pc[p] = "done" /\ op[p] = "list_versions"
    /\ res[p].listing = <<"v6">>
    /\ is_version_loaded("v1")
    /\ _active_version = "v1"

\* the metrics of the signals caller p has emitted
Metrics(p) == {emitted[p][i].metric : i \in DOMAIN emitted[p]}

\* C21: a prediction answers with a response only when its features passed
\* validation, it holds the artifact of its effective version and the
\* inference call on that artifact returned without a recorded error; every
\* other prediction ends with a raised error that names its cause, and a
\* response comes from no other step than the inference call.
C21_NoFailureSwallowed ==
  /\ [](\A p \in Callers :
          pc[p] = "done" /\ op[p] = "predict"
          => IF res[p].kind = "ok"
             THEN /\ validate_features(req_features[p]) = "True"
                  /\ res[p].artifact # NoHandle
                  /\ res[p].artifact = model[p]
                  /\ res[p].artifact.ver = res[p].version
                  /\ res[p].version = ver[p]
                  /\ arg[p] \in Versions => res[p].version = arg[p]
                  /\ "prediction_errors" \notin Metrics(p)
                  /\ "prediction_requests" \in Metrics(p)
             ELSE /\ res[p].kind \in {"ValueError", "RuntimeError",
                                      "TypeError"}
                  /\ res[p].cause # "none")
  /\ [][\A p \in Callers :
          Moves(p) /\ pc'[p] = "done" /\ op'[p] = "predict"
                   /\ res'[p].kind = "ok"
          => pc[p] = "invoke" /\ res'[p].artifact = model[p]]_vars

\* C21 witness: the inference call of a prediction raised, and the
\* prediction ended with the error and the recorded error signal
C21_Witness ==
  \E p \in Callers :
    /\ pc[p] = "done" /\ op[p] = "predict"
    /\ res[p].kind = "RuntimeError" /\ res[p].cause = "inference"
    /\ "prediction_errors" \in Metrics(p)

\* the positions of the error signals among the signals of caller p
ErrorSignals(p) ==
  {i \in DOMAIN emitted[p] : emitted[p][i].metric = "prediction_errors"}

\* C22: every failed prediction, invalid features included, has emitted
\* exactly one error signal, and that signal carries the version the
\* prediction was attempting.
C22_EveryFailureSignalled ==
  \A p \in Callers :
    pc[p] = "done" /\ op[p] = "predict" /\ res[p].kind # "ok"
    => /\ Cardinality(ErrorSignals(p)) = 1
       /\ \A i \in ErrorSignals(p) : emitted[p][i].version = ver[p]

\* C23: the prediction answered is the single element of an output of
\* length 1 (the number of a one-element vector, the row of a one-row
\* matrix), and the whole output, unchanged, for every other length.
C23_OutputNormalized ==
  \A p \in Callers :
    pc[p] = "done" /\ op[p] = "predict" /\ prediction[p] # NoValue
    => /\ res[p].kind = "ok"
       /\ res[p].prediction = IF Len(prediction[p].items) = 1
                              THEN prediction[p].items[1]
                              ELSE prediction[p]

\* C24: the active version is a version name in every state, it is the
\* configured default for as long as no switch has made another version
\* active, and get_active_version answers it, whatever the store and the
\* cache hold.
C24_ActiveAlwaysDefined ==
  /\ _active_version \in Versions
  /\ everActive = {default_version} => _active_version = default_version
  /\ \A p \in Callers :
       pc[p] = "done" /\ op[p] = "get_active"
       => /\ res[p].kind = "ok"
          /\ res[p].active \in Versions
          /\ everActive = {default_version}
               => res[p].active = default_version

\* C24 witness: get_active_version has answered the default although the
\* default has no artifact in the store and no entry in the cache, and no
\* other version was ever active
C24_Witness ==
  \E p \in Callers :
    /\ pc[p] = "done" /\ op[p] = "get_active"
    /\ res[p].active = default_version
    /\ everActive = {default_version}
    /\ ~PathExists(store, default_version)
    /\ ~is_version_loaded(default_version)

\* C25: in every state, the states in the middle of an operation included,
\* a version has a cached model exactly when it has a recorded load time.
C25_CacheAndLoadTimesAgree ==
  \A v \in Versions : is_version_loaded(v) <=> get_load_time(v) # NoTime

\* the operations that only ask
QueryOps ==
  {"is_version_loaded", "get_load_time", "get_active", "list_versions",
   "get_model_info", "get_all_models_info", "get_health_status"}

\* C26: every query answers in one step without an error and leaves the
\* cached models, the load times, the count of loads, the active version
\* with its gauge, and the store unchanged.
C26_QueriesArePure ==
  [][\A p \in Callers :
       pc[p] = "idle" /\ op'[p] \in QueryOps /\ Moves(p)
       => /\ pc'[p] = "done" /\ res'[p].kind = "ok"
          /\ emitted'[p] = emitted[p]
          /\ UNCHANGED <<store, registry>>]_vars

\* C26 witness: the health query has answered that the active version is
\* not among the listed ones, with nothing loaded and no load performed
C26_Witness ==
  \E p \in Callers :
    /\ pc[p] = "done" /\ op[p] = "get_health_status"
    /\ res[p].status = "no_active_model"
    /\ res[p].models_loaded = 0
    /\ nextId = 1

\* C27: no step of a get_model or of a prediction, whether it hits the
\* cache, loads or fails, changes the cached model or the load time of a
\* version other than the one it resolved to.
C27_GetTouchesOnlyItsVersion ==
  [][\A p \in Callers :
       Moves(p) /\ op'[p] \in {"get_model", "predict"}
       => \A w \in Versions \ {ver'[p]} :
            /\ _models'[w] = _models[w]
            /\ _load_times'[w] = _load_times[w]]_vars

\* C27 witness: a get_model has loaded one version while the other
\* version, loaded before it, is still cached with its load time
C27_Witness ==
  \E p \in Callers :
    /\ pc[p] = "done" /\ op[p] = "get_model" /\ res[p].kind = "ok"
    /\ res[p].artifact.id = 2
    /\ \E w \in Versions \ {res[p].version} :
         /\ is_version_loaded(w) /\ _models[w].id = 1
         /\ get_load_time(w) # NoTime

\* C28: no step of a caller, whatever its operation, changes the store;
\* the store changes only in steps of the environment, in which no caller
\* moves.
C28_StoreIsReadOnly ==
  [][/\ \A p \in Callers : Moves(p) \/ op'[p] # op[p] => store' = store
     /\ store' # store
          => /\ \E v \in Versions, s \in StoreStates : EnvStore(v, s)
             /\ UNCHANGED <<registry, pc, locals>>]_vars

\* C28 witness: a load has failed on an unreadable artifact, and the
\* artifact is still in the store as it was
C28_Witness ==
  \E p \in Callers :
    /\ pc[p] = "done" /\ op[p] \in {"get_model", "predict"}
    /\ res[p].cause = "load_failed"
    /\ store[ver[p]] = "corrupt"

\* the version a get_model of caller p resolves to at its cache test
Resolved(p) == IF Falsy(ver[p]) THEN _active_version ELSE ver[p]

\* C29: a get_model or a prediction that finds its version cached goes on
\* to return the cached artifact, whatever the store holds: it performs no
\* load and changes no entry; and a switch to a cached version whose
\* artifact is missing is rejected and leaves the active version.
C29_CachedServedWithoutStore ==
  /\ [][\A p \in Callers :
          Moves(p) /\ pc[p] = "gm_check" /\ is_version_loaded(Resolved(p))
          => /\ pc'[p] = "gm_return" /\ ver'[p] = Resolved(p)
             /\ UNCHANGED registry]_vars
  /\ [][\A p \in Callers :
          Moves(p) /\ pc[p] = "gm_return" /\ is_version_loaded(ver[p])
          => /\ model'[p] = _models[ver[p]]
             /\ UNCHANGED registry
             /\ IF op[p] = "predict" THEN pc'[p] = "invoke"
                ELSE /\ pc'[p] = "done" /\ res'[p].kind = "ok"
                     /\ res'[p].artifact = _models[ver[p]]]_vars
  /\ [][\A p \in Callers :
          /\ SwitchStep(p) /\ ~PathExists(store, arg'[p])
          /\ arg'[p] \in Versions /\ is_version_loaded(arg'[p])
          => /\ pc'[p] = "done" /\ ~res'[p].success
             /\ _active_version' = _active_version]_vars

\* C29 witness: a prediction without override has been served by the
\* cached artifact of the active version, whose file is no longer in the
\* store, after a single load
C29_Witness ==
  \E p \in Callers :
    /\ pc[p] = "done" /\ op[p] = "predict" /\ arg[p] = NoneV
    /\ res[p].kind = "ok" /\ res[p].version = _active_version
    /\ store[res[p].version] = "absent"
    /\ res[p].artifact = _models[res[p].version]

\* C30: when the admin switch answers, success is true only if this step
\* or the registry call before it made the requested version the active
\* one, and then the response names the requested version; when success is
\* false the active version is what it was and the response names it.
C30_AdminResponseConsistent ==
  /\ [][\A p \in Callers :
          Moves(p) /\ op'[p] = "admin_set_active" /\ pc'[p] = "done"
          => /\ res'[p].kind = "ok"
             /\ res'[p].active = _active_version'
             /\ IF res'[p].success
                THEN /\ pc[p] = "admin_set"
                     /\ _active_version' = arg'[p]
                     /\ PathExists(store, arg'[p])
                ELSE _active_version' = _active_version]_vars
  /\ [][\A p \in Callers :
          Moves(p) /\ op'[p] = "admin_set_active" /\ pc'[p] = "admin_set"
          => /\ arg'[p] \in AvailableVersions(store)
             /\ _active_version' = _active_version]_vars

\* C30 witness: the requested version was listed, its artifact was gone
\* when the registry looked, and the response reports the failure with the
\* active version that stayed
C30_Witness ==
  \E p \in Callers :
    /\ pc[p] = "done" /\ op[p] = "admin_set_active"
    /\ ver[p] = arg[p] /\ arg[p] \in Versions
    /\ ~res[p].success
    /\ res[p].active = _active_version /\ res[p].active # arg[p]

\* the positions, among the signals of caller p, of those of one metric
SignalsOf(p, metric) ==
  {i \in DOMAIN emitted[p] : emitted[p][i].metric = metric}

\* C31: a successful prediction has emitted exactly one latency observation
\* and exactly one request count, with status "success", both labelled with
\* its version, and no error count; a failed prediction has emitted no
\* latency observation and no request count.
C31_PredictionSignals ==
  \A p \in Callers :
    pc[p] = "done" /\ op[p] = "predict"
    => IF res[p].kind = "ok"
       THEN /\ Cardinality(SignalsOf(p, "inference_latency")) = 1
            /\ Cardinality(SignalsOf(p, "prediction_requests")) = 1
            /\ SignalsOf(p, "prediction_errors") = {}
            /\ \A i \in SignalsOf(p, "inference_latency")
                        \cup SignalsOf(p, "prediction_requests") :
                 /\ emitted[p][i].version = res[p].version
                 /\ emitted[p][i].label \in {"observe", "success"}
       ELSE /\ SignalsOf(p, "inference_latency") = {}
            /\ SignalsOf(p, "prediction_requests") = {}


\* C32: between operations, the information get_model_info gives about a
\* version says that it exists exactly when the store has an artifact for
\* it, that it is loaded exactly when it is cached, a load time exactly when
\* it is loaded, and that it is active exactly when it is the active
\* version; so at most one version is reported active, and none of the
\* versions of the store when the active version is not in the store.
C32_ModelInfoReflectsRegistry ==
  (\A p \in Callers : pc[p] \in {"idle", "done"})
  => /\ \A v \in Versions :
          LET info == ModelInfo(v)
          IN /\ info.exists <=> (store[v] # "absent")
             /\ info.loaded <=> (_models[v] # NoHandle)
             /\ (info.load_time # NoTime) <=> info.loaded
             /\ info.active <=> (v = _active_version)
     /\ Cardinality({v \in Versions : ModelInfo(v).active}) <= 1
     /\ (_active_version \notin AvailableVersions(store)
         => \A v \in AvailableVersions(store) : ~ModelInfo(v).active)


\* how far a get_model or predict call has come
Rank(position) ==
  CASE position = "gm_check" -> 1
    [] position = "load_exists" -> 2
    [] position = "loading" -> 3
    [] position = "load_time" -> 4
    [] position = "gm_return" -> 5
    [] position = "invoke" -> 6
    [] OTHER -> 7

\* a get_model or predict call that has started and not yet ended
InFlightGet(p) == op[p] \in {"get_model", "predict"} /\ Rank(pc[p]) < 7

\* C33: every statement of a get_model or predict call takes the call
\* forward, so it attempts at most one load and never goes back to try a
\* failed one again; and every such call ends, with a result or an error,
\* whatever the other caller does (as long as the model run has loads left).
C33_OneLoadAttemptThenEnds ==
  /\ [][\A p \in Callers :
          InFlightGet(p) /\ Moves(p)
          => /\ Rank(pc'[p]) > Rank(pc[p])
             /\ nextId' \in {nextId, nextId + 1}
             /\ (nextId' # nextId => pc[p] = "loading")
             /\ (pc'[p] = "done" => res'[p].kind # "none")]_vars
  /\ \A p \in Callers :
       InFlightGet(p) ~> (pc[p] = "done" \/ nextId > MaxLoads)

\* a call whose load failed has ended with the error, while the other
\* caller is in the middle of loading the same version
C33_Witness ==
  /\ pc["t1"] = "done" /\ op["t1"] = "get_model"
  /\ res["t1"].cause = "load_failed"
  /\ pc["t2"] = "loading" /\ ver["t2"] = res["t1"].version
  /\ nextId = 1


\* the versions that have a cached model
CachedVersions == {v \in Versions : _models[v] # NoHandle}

C35_GaugeMarksOnlyActive ==
  /\ gauge[_active_version] = 1
  /\ \A v \in everActive \ {_active_version} : gauge[v] = 0
  /\ \A l \in DOMAIN gauge : gauge[l] = 1 => l = _active_version


\* C36: no statement of a prediction changes the active version or its
\* gauge, or the cached model or load time of a version other than the one
\* the prediction is for; and the statement at which a prediction fails, be
\* it on a missing artifact, a load error or an inference exception,
\* changes nothing of the registry.
C36_FailedPredictionKeepsRegistry ==
  [][\A p \in Callers :
       Moves(p) /\ op'[p] = "predict"
       => /\ _active_version' = _active_version
          /\ gauge' = gauge
          /\ \A w \in Versions :
               (_models'[w] # _models[w] \/ _load_times'[w] # _load_times[w])
               => w = ver'[p]
          /\ (pc'[p] = "done" /\ res'[p].kind # "ok"
              => UNCHANGED <<_models, _load_times>>)]_vars

\* a prediction for the active version has failed on its missing artifact:
\* the active version is still the one switched to, and the other version
\* is still cached
C36_Witness ==
  /\ pc["t1"] = "done" /\ op["t1"] = "predict"
  /\ res["t1"].kind = "ValueError" /\ res["t1"].cause = "model_not_found"
  /\ res["t1"].version = "v6"
  /\ _active_version = "v6"
  /\ _models["v1"] # NoHandle /\ _load_times["v1"] # NoTime


\* the startup handler has completed
Started == pc["t1"] = "done" /\ op["t1"] = "startup" /\ res["t1"].kind = "ok"

\* C37: the startup loads the default version when its artifact is there:
\* it goes from the existence test to the load, a loadable artifact is
\* cached by it, and a startup that returned from get_model has the default
\* version cached, so that the first prediction for it finds it cached;
\* when the artifact is missing at the test, the startup completes, with
\* nothing cached; in both cases the active version is the default.
C37_StartupLoadsDefault ==
  /\ [][/\ (pc["t1"] = "load_exists" /\ Moves("t1")
            => IF PathExists(store, default_version)
               THEN pc'["t1"] = "loading"
               ELSE /\ Started'
                    /\ res'["t1"].cause = "model_not_found"
                    /\ \A v \in Versions : _models'[v] = NoHandle)
        /\ (pc["t1"] = "loading" /\ Moves("t1")
            /\ store[default_version] = "ok"
            => _models'[default_version] # NoHandle)
        /\ (Started /\ res["t1"].cause = "none"
            /\ pc["t2"] = "gm_check" /\ Moves("t2")
            /\ ver'["t2"] = default_version
            => pc'["t2"] = "gm_return" /\ UNCHANGED nextId)]_vars
  /\ [](op["t1"] = "startup"
        => /\ _active_version = default_version
           /\ ver["t1"] \in {EmptyStr, default_version}
           /\ (Started /\ res["t1"].cause = "none"
               => /\ _models[default_version] # NoHandle
                  /\ _load_times[default_version] # NoTime)
           /\ (Started /\ res["t1"].cause # "none"
               => /\ res["t1"].cause = "model_not_found"
                  /\ (nextId = 1
                      => \A v \in Versions : _models[v] = NoHandle)))

\* the startup has loaded the default version, and the first prediction
\* for it has found it cached: the one load is the startup's
C37_Witness ==
  /\ Started /\ res["t1"].cause = "none"
  /\ pc["t2"] = "gm_return" /\ ver["t2"] = default_version
  /\ _models[default_version] = [ver |-> default_version, id |-> 1]
  /\ nextId = 2
====
